---- MODULE Spec2Model ----
(***************************************************************************)
(* Model of NARPMScraper (src/narpm.py): the page fetcher fetch_page with  *)
(* its retry/backoff recursion, the pagination driver scrape_all_pages,    *)
(* and the exporter save_to_csv.                                           *)
(*                                                                         *)
(* One HTTP request of fetch_page is one action (the response is the       *)
(* input); one iteration of the driver's loop body after the fetch         *)
(* returned (lines 148-181) is one action.                                 *)
(***************************************************************************)
EXTENDS Integers, Sequences, FiniteSets, TLC

VARIABLES
    limit,              \* self.limit
    total_pages,        \* argument of scrape_all_pages
    dataset,            \* number of records the simulated server holds
    calls,              \* scrape_all_pages calls the caller is going to make
    all_data,           \* self.all_data
    pc,                 \* "idle" | "fetch" | "process" | "done"
    page,               \* loop variable of scrape_all_pages
    successful_calls,
    failed_calls,
    empty_responses,
    retry_count,        \* retry_count of the innermost fetch_page frame
    page_data,          \* value returned by fetch_page
    runs,               \* calls of scrape_all_pages made so far
    \* ---- observation (history) variables, never read by the program ----
    attempts,           \* kinds of the responses of the current fetch, in order
    response,           \* body of the 200 response that ended the fetch
    sleeps,             \* time.sleep durations inside the current fetch
    offsets,            \* offsets passed to fetch_page by the driver, this run
    delays,             \* inter-page time.sleep(self.delay) calls, this run
    accepted,           \* [offset, records] of the pages extended into
                        \* all_data, this run
    last,               \* branch taken by the last loop body: success/empty/failed
    streak,             \* empty pages since the last accepted page
    stop,               \* why the loop ended: "" | "budget" | "empty" | "failed"
    csv_file,           \* content of the CSV target path (NoFile when absent)
    csv_result,         \* value returned by the last save_to_csv
    csv_source,         \* self.all_data as it was when csv_file was written
    exports             \* save_to_csv calls that found records to write

vars == <<limit, total_pages, dataset, calls, all_data, pc, page, successful_calls,
          failed_calls, empty_responses, retry_count, page_data, runs,
          attempts, response, sleeps, offsets, delays, accepted, last, streak, stop,
          csv_file, csv_result, csv_source, exports>>

----------------------------------------------------------------------------
(* Bounds of the model *)

\* scrape_all_pages calls on one scraper object
MaxRuns == 2
\* save_to_csv calls with records to write on one scraper object
MaxExports == 2

(* Program constants *)

RECORDS_PER_PAGE == 12
EMPTY_STOP == 3
FAILURE_STOP == 10
RATE_LIMIT_RETRIES == 3
TRANSIENT_RETRIES == 2
RATE_LIMIT_BASE == 10
RATE_LIMIT_CAP == 60
SERVER_ERROR_STEP == 5
TIMEOUT_WAIT == 2
CONNECTION_WAIT == 5

----------------------------------------------------------------------------
(* JSON values, tagged by their Python type *)

None == [t |-> "None"]
JList(s) == [t |-> "list", v |-> s]
JDict(f) == [t |-> "dict", v |-> f]
JStr == [t |-> "str"]
\* a body on which response.json() raises
Unparsable == [t |-> "unparsable"]

\* Python truthiness
Truthy(x) ==
    CASE x.t = "None" -> FALSE
      [] x.t = "list" -> Len(x.v) > 0
      [] x.t = "dict" -> DOMAIN x.v # {}
      [] OTHER -> TRUE

Min(a, b) == IF a < b THEN a ELSE b

RECURSIVE Pow2(_)
Pow2(n) == IF n = 0 THEN 1 ELSE 2 * Pow2(n - 1)

Last(s) == s[Len(s)]

\* the records of a sequence of accepted pages, page after page
RECURSIVE Flatten(_)
Flatten(ps) ==
    IF ps = << >> THEN << >> ELSE Head(ps).records \o Flatten(Tail(ps))

----------------------------------------------------------------------------
(* The simulated server behind requests.get *)

\* the i-th record of the server's collection; the key sets vary
Record(i) ==
    IF i % 2 = 1 THEN JDict([id |-> i, name |-> i])
                 ELSE JDict([id |-> i, state |-> i % 3])

\* the records the server holds for a page starting at offset
ServerPage(offset) ==
    LET n == IF offset >= dataset THEN 0 ELSE Min(limit, dataset - offset)
    IN  [k \in 1..n |-> Record(offset + k)]

\* the bodies an HTTP 200 response to a request for offset may carry
Bodies(offset) ==
    {JDict([data |-> JList(ServerPage(offset))]),   \* {"data": [...]}
     JDict([data |-> JList(<< >>)]),                \* {"data": []}
     JList(ServerPage(offset)),                     \* [...]
     JList(<< >>),                                  \* []
     JDict(<< >>),                                  \* {}
     Unparsable}
    \cup (IF offset < dataset
          THEN {Record(offset + 1),                 \* one object, no "data"
                JStr}                               \* a scalar payload
          ELSE {})

ServerErrorCodes == {500, 502, 503, 504}
OtherStatusCodes == {400, 403, 404}

----------------------------------------------------------------------------
(* fetch_page *)

\* a variant of RateLimitWait without the cap
RateLimitWait_uncapped(rc) == RATE_LIMIT_BASE * Pow2(rc)

\* line 80
RateLimitWait(rc) == Min(RATE_LIMIT_BASE * Pow2(rc), RATE_LIMIT_CAP)

\* a variant of ServerErrorWait that does not grow with the attempt
ServerErrorWait_flat(rc) == SERVER_ERROR_STEP

\* line 89
ServerErrorWait(rc) == SERVER_ERROR_STEP * (rc + 1)

\* line 76: the logging expression calls data.get on a dict or a list
LogRaises(data) == data.t = "list"

\* a variant of OkResult that hands an unparsable body on to the driver
OkResult_unchecked(body) == IF LogRaises(body) THEN None ELSE body

\* lines 74-77 with the handler of lines 115-117: what a 200 response returns
OkResult(body) ==
    IF body = Unparsable \/ LogRaises(body) THEN None ELSE body

\* a variant of Retry that counts the retries of each failure kind apart
Retry_perkind(kind, wait) ==
    /\ attempts' = Append(attempts, kind)
    /\ sleeps' = Append(sleeps, wait)
    /\ retry_count' = IF attempts # << >> /\ Last(attempts) # kind
                      THEN 1 ELSE retry_count + 1
    /\ UNCHANGED <<pc, page_data, response>>

\* `return self.fetch_page(offset, retry_count + 1)` after time.sleep(wait)
Retry(kind, wait) ==
    /\ attempts' = Append(attempts, kind)
    /\ sleeps' = Append(sleeps, wait)
    /\ retry_count' = retry_count + 1
    /\ UNCHANGED <<pc, page_data, response>>

\* fetch_page returns value to the driver after a response of this kind
\* (body: what a 200 response carried), having slept as slept says
Return(kind, body, value, slept) ==
    /\ attempts' = Append(attempts, kind)
    /\ response' = body
    /\ sleeps' = slept
    /\ page_data' = value
    /\ pc' = "process"
    /\ UNCHANGED retry_count

FetchFrame == <<limit, total_pages, dataset, calls, all_data, page, successful_calls,
                failed_calls, empty_responses, runs, offsets, delays,
                accepted, last, streak, stop, csv_file, csv_result,
                csv_source, exports>>

\* lines 74-77
Fetch200 ==
    /\ pc = "fetch"
    /\ \E body \in Bodies(Last(offsets)) :
        Return("200", body, OkResult(body), sleeps)
    /\ UNCHANGED FetchFrame

\* lines 79-85
Fetch429 ==
    /\ pc = "fetch"
    /\ IF retry_count < RATE_LIMIT_RETRIES
       THEN Retry("429", RateLimitWait(retry_count))
       ELSE Return("429", None, None,
                   Append(sleeps, RateLimitWait(retry_count)))
    /\ UNCHANGED FetchFrame

\* lines 87-95
Fetch5xx ==
    /\ pc = "fetch"
    /\ \E code \in ServerErrorCodes :
        IF retry_count < TRANSIENT_RETRIES
        THEN Retry("5xx", ServerErrorWait(retry_count))
        ELSE Return("5xx", None, None, sleeps)
    /\ UNCHANGED FetchFrame

\* lines 97-99
FetchOtherStatus ==
    /\ pc = "fetch"
    /\ \E code \in OtherStatusCodes : Return("other", None, None, sleeps)
    /\ UNCHANGED FetchFrame

\* lines 101-106
FetchTimeout ==
    /\ pc = "fetch"
    /\ IF retry_count < TRANSIENT_RETRIES
       THEN Retry("timeout", TIMEOUT_WAIT)
       ELSE Return("timeout", None, None, sleeps)
    /\ UNCHANGED FetchFrame

\* lines 108-113
FetchConnectionError ==
    /\ pc = "fetch"
    /\ IF retry_count < TRANSIENT_RETRIES
       THEN Retry("connection", CONNECTION_WAIT)
       ELSE Return("connection", None, None, sleeps)
    /\ UNCHANGED FetchFrame

\* a variant of FetchException that counts the failure inside fetch_page
FetchException_counting ==
    /\ pc = "fetch"
    /\ Return("exception", None, None, sleeps)
    /\ failed_calls' = failed_calls + 1
    /\ UNCHANGED <<limit, total_pages, dataset, calls, all_data, page,
                   successful_calls, empty_responses, runs, offsets, delays,
                   accepted, last, streak, stop, csv_file, csv_result,
                   csv_source, exports>>

\* lines 115-117: requests.get raises something else
FetchException ==
    /\ pc = "fetch"
    /\ Return("exception", None, None, sleeps)
    /\ UNCHANGED FetchFrame

----------------------------------------------------------------------------
(* scrape_all_pages *)

\* a variant of ActualPages that rounds down
ActualPages_floor(tp, lim) == (tp * RECORDS_PER_PAGE) \div lim

\* lines 130-131
ActualPages(tp, lim) == (tp * RECORDS_PER_PAGE + lim - 1) \div lim

\* a variant of Offset that asks for the third page's offset twice
Offset_repeat(pg, lim) == IF pg > 2 THEN (pg - 1) * lim ELSE pg * lim

\* line 141
Offset(pg, lim) == pg * lim

\* lines 150-155: the records of a truthy page_data
Records(data) ==
    IF data.t = "dict" /\ "data" \in DOMAIN data.v THEN data.v.data.v
    ELSE IF data.t = "list" THEN data.v
    ELSE <<data>>

\* a variant of Extend that puts the new records in front
Extend_prepend(data, records) == records \o data

\* a variant of Extend that loses the last record of a page
Extend_short(data, records) == data \o SubSeq(records, 1, Len(records) - 1)

\* line 158: self.all_data.extend(records)
Extend(data, records) == data \o records

\* a variant of EmptyStop that stops one empty page later
EmptyStop_late(n) == n > EMPTY_STOP

\* line 164
EmptyStop(n) == n >= EMPTY_STOP

\* a variant of FailureStop that stops one failure later
FailureStop_late(n) == n > FAILURE_STOP

\* line 170
FailureStop(n) == n >= FAILURE_STOP

\* a variant of DelayDue that also sleeps after the last page
DelayDue_always(pg, pages) == TRUE

\* line 175
DelayDue(pg, pages) == pg < pages - 1

\* the loop goes on: lines 174-176, then lines 140-146 of the next iteration
Continue ==
    LET pages == ActualPages(total_pages, limit) IN
    /\ delays' = IF DelayDue(page, pages) THEN delays + 1 ELSE delays
    /\ page' = page + 1
    /\ IF page + 1 < pages
       THEN /\ pc' = "fetch"
            /\ offsets' = Append(offsets, Offset(page + 1, limit))
            /\ stop' = stop
       ELSE /\ pc' = "done"
            /\ offsets' = offsets
            /\ stop' = "budget"

\* break: lines 166 and 172, then lines 183-188
Break(why) ==
    /\ pc' = "done"
    /\ stop' = why
    /\ UNCHANGED <<page, offsets, delays>>

\* lines 119-146: the call, up to the first fetch_page call
StartRun ==
    /\ pc \in {"idle", "done"}
    /\ runs < calls
    /\ runs' = runs + 1
    /\ successful_calls' = 0
    /\ failed_calls' = 0
    /\ empty_responses' = 0
    /\ page' = 0
    /\ retry_count' = 0
    /\ page_data' = None
    /\ attempts' = << >>
    /\ response' = None
    /\ sleeps' = << >>
    /\ delays' = 0
    /\ accepted' = << >>
    /\ last' = ""
    /\ streak' = 0
    /\ IF ActualPages(total_pages, limit) > 0
       THEN /\ pc' = "fetch"
            /\ offsets' = <<Offset(0, limit)>>
            /\ stop' = ""
       ELSE /\ pc' = "done"
            /\ offsets' = << >>
            /\ stop' = "budget"
    /\ UNCHANGED <<limit, total_pages, dataset, calls, all_data, csv_file,
                   csv_result, csv_source, exports>>

\* a variant of ProcessPage that clears empty_responses on an accepted page
ProcessPage_resetting ==
    /\ pc = "process"
    /\ IF Truthy(page_data)
       THEN IF Records(page_data) # << >>
            THEN /\ all_data' = Extend(all_data, Records(page_data))
                 /\ accepted' = Append(accepted,
                        [offset |-> Offset(page, limit),
                         records |-> Records(page_data)])
                 /\ successful_calls' = successful_calls + 1
                 /\ last' = "success"
                 /\ streak' = 0
                 /\ empty_responses' = 0
                 /\ UNCHANGED failed_calls
                 /\ Continue
            ELSE /\ empty_responses' = empty_responses + 1
                 /\ last' = "empty"
                 /\ streak' = streak + 1
                 /\ UNCHANGED <<all_data, accepted, successful_calls,
                                failed_calls>>
                 /\ IF EmptyStop(empty_responses + 1)
                    THEN Break("empty") ELSE Continue
       ELSE /\ failed_calls' = failed_calls + 1
            /\ last' = "failed"
            /\ UNCHANGED <<all_data, accepted, successful_calls,
                           empty_responses, streak>>
            /\ IF FailureStop(failed_calls + 1)
               THEN Break("failed") ELSE Continue
    /\ retry_count' = 0
    /\ page_data' = None
    /\ attempts' = << >>
    /\ response' = None
    /\ sleeps' = << >>
    /\ UNCHANGED <<limit, total_pages, dataset, calls, runs, csv_file,
                   csv_result, csv_source, exports>>

\* lines 148-181: the loop body after fetch_page returned
ProcessPage ==
    /\ pc = "process"
    /\ IF Truthy(page_data)
       THEN IF Records(page_data) # << >>
            THEN /\ all_data' = Extend(all_data, Records(page_data))
                 /\ accepted' = Append(accepted,
                        [offset |-> Offset(page, limit),
                         records |-> Records(page_data)])
                 /\ successful_calls' = successful_calls + 1
                 /\ last' = "success"
                 /\ streak' = 0
                 /\ UNCHANGED <<failed_calls, empty_responses>>
                 /\ Continue
            ELSE /\ empty_responses' = empty_responses + 1
                 /\ last' = "empty"
                 /\ streak' = streak + 1
                 /\ UNCHANGED <<all_data, accepted, successful_calls,
                                failed_calls>>
                 /\ IF EmptyStop(empty_responses + 1)
                    THEN Break("empty") ELSE Continue
       ELSE /\ failed_calls' = failed_calls + 1
            /\ last' = "failed"
            /\ UNCHANGED <<all_data, accepted, successful_calls,
                           empty_responses, streak>>
            /\ IF FailureStop(failed_calls + 1)
               THEN Break("failed") ELSE Continue
    /\ retry_count' = 0
    /\ page_data' = None
    /\ attempts' = << >>
    /\ response' = None
    /\ sleeps' = << >>
    /\ UNCHANGED <<limit, total_pages, dataset, calls, runs, csv_file,
                   csv_result, csv_source, exports>>

----------------------------------------------------------------------------
(* save_to_csv *)

NoFile == [t |-> "nofile"]
CsvFile(header, rows) == [t |-> "csv", header |-> header, rows |-> rows]

\* the field names of the model in the order Python's sorted() gives them
KeyOrder == <<"data", "id", "name", "state">>

\* a variant of Sorted that sorts in descending order
Sorted_descending(keys) ==
    LET n == Len(KeyOrder)
    IN  SelectSeq([i \in 1..n |-> KeyOrder[n + 1 - i]], LAMBDA k : k \in keys)

\* line 234: sorted(all_keys)
Sorted(keys) == SelectSeq(KeyOrder, LAMBDA k : k \in keys)

\* lines 227-230: the keys of the records that are dicts
AllKeys(data) ==
    UNION {DOMAIN data[i].v : i \in {j \in 1..Len(data) : data[j].t = "dict"}}

\* csv.DictWriter: one cell per field name, empty for a key the record lacks
Row(record, header) ==
    [i \in 1..Len(header) |->
        IF header[i] \in DOMAIN record.v THEN <<record.v[header[i]]>>
                                          ELSE << >>]

\* the index of the first record writerows raises on (a record that is not
\* a dict has no keys()), Len(data) + 1 when there is none
FirstBadRow(data) ==
    IF \E i \in 1..Len(data) : data[i].t # "dict"
    THEN CHOOSE i \in 1..Len(data) :
            /\ data[i].t # "dict"
            /\ \A j \in 1..(i - 1) : data[j].t = "dict"
    ELSE Len(data) + 1

\* lines 232-236: what is in the file when the with block is left
CsvContent(data) ==
    LET header == Sorted(AllKeys(data))
        n == FirstBadRow(data) - 1
    IN  IF AllKeys(data) = {}
        THEN CsvFile(<< >>, << >>)
        ELSE CsvFile(header, [i \in 1..n |-> Row(data[i], header)])

\* lines 215-243; io is what the file system does to open() and write()
SaveToCsv ==
    /\ pc \in {"idle", "done"}
    /\ exports < MaxExports
    /\ exports' = IF all_data = << >> THEN exports ELSE exports + 1
    /\ IF all_data = << >>
       THEN /\ csv_result' = ""
            /\ UNCHANGED <<csv_file, csv_source>>
       ELSE \E io \in {"ok", "open_fails", "write_fails"} :
            IF io = "open_fails"
            THEN /\ csv_result' = ""
                 /\ UNCHANGED <<csv_file, csv_source>>
            ELSE IF io = "write_fails"
            THEN /\ csv_result' = ""
                 /\ csv_file' = CsvFile(<< >>, << >>)
                 /\ csv_source' = all_data
            ELSE /\ csv_result' =
                    IF AllKeys(all_data) # {}
                       /\ FirstBadRow(all_data) <= Len(all_data)
                    THEN "" ELSE "file.csv"
                 /\ csv_file' = CsvContent(all_data)
                 /\ csv_source' = all_data
    /\ UNCHANGED <<limit, total_pages, dataset, calls, all_data, pc, page,
                   successful_calls, failed_calls, empty_responses,
                   retry_count, page_data, runs, attempts, response, sleeps,
                   offsets,
                   delays, accepted, last, streak, stop>>

----------------------------------------------------------------------------
(* The scraper objects and calls the model explores *)

\* limit and total_pages give 12, 3, 4 and 1 fetch_page calls per run
Configs ==
    {[limit |-> 1,  total_pages |-> 1, dataset |-> 1,  calls |-> 1],
     [limit |-> 5,  total_pages |-> 1, dataset |-> 12, calls |-> 1],
     [limit |-> 20, total_pages |-> 6, dataset |-> 40, calls |-> 1],
     [limit |-> 12, total_pages |-> 1, dataset |-> 2,  calls |-> MaxRuns]}

\* lines 28-39: the state after __init__
Init ==
    /\ \E c \in Configs :
        /\ limit = c.limit
        /\ total_pages = c.total_pages
        /\ dataset = c.dataset
        /\ calls = c.calls
    /\ all_data = << >>
    /\ pc = "idle"
    /\ page = 0
    /\ successful_calls = 0
    /\ failed_calls = 0
    /\ empty_responses = 0
    /\ retry_count = 0
    /\ page_data = None
    /\ runs = 0
    /\ attempts = << >>
    /\ response = None
    /\ sleeps = << >>
    /\ offsets = << >>
    /\ delays = 0
    /\ accepted = << >>
    /\ last = ""
    /\ streak = 0
    /\ stop = ""
    /\ csv_file = NoFile
    /\ csv_result = ""
    /\ csv_source = << >>
    /\ exports = 0

Next ==
    \/ StartRun
    \/ Fetch200
    \/ Fetch429
    \/ Fetch5xx
    \/ FetchOtherStatus
    \/ FetchTimeout
    \/ FetchConnectionError
    \/ FetchException
    \/ ProcessPage
    \/ SaveToCsv

Spec == Init /\ [][Next]_vars

\* one requests.get of fetch_page, whatever comes back
FetchStep ==
    \/ Fetch200
    \/ Fetch429
    \/ Fetch5xx
    \/ FetchOtherStatus
    \/ FetchTimeout
    \/ FetchConnectionError
    \/ FetchException

\* a run that was started goes on: requests.get has a timeout (line 72), the
\* sleeps are finite, and nothing else runs besides the loop
FairSpec == Spec /\ WF_vars(FetchStep) /\ WF_vars(ProcessPage)

----------------------------------------------------------------------------
(* Properties *)

Pages == ActualPages(total_pages, limit)

\* the offsets of the accepted pages strictly increase
AcceptedAscending ==
    \A i, j \in 1..Len(accepted) :
        i < j => accepted[i].offset < accepted[j].offset

\* the ids of the server's records in data strictly increase
IdsAscending(data) ==
    \A i, j \in 1..Len(data) :
        (i < j /\ data[i].t = "dict" /\ data[j].t = "dict")
            => data[i].v.id < data[j].v.id

(* C1: during the first run on a fresh scraper, all_data is the            *)
(* concatenation of the accepted pages' records, the pages in ascending    *)
(* offset order and every page's records in the order the server sent them *)
(* (the server sends its records in ascending id order).                   *)
C1_AggregateOrder ==
    runs = 1 =>
        /\ all_data = Flatten(accepted)
        /\ AcceptedAscending
        /\ IdsAscending(all_data)

C1_Witness ==
    /\ runs = 1
    /\ Len(accepted) = 2
    /\ Len(accepted[1].records) >= 2
    /\ Len(accepted[2].records) >= 2
    /\ failed_calls >= 1

(* C2: after a page was accepted the empty-page counter is 0, and the      *)
(* empty-page stop happens only with three empty pages since the last      *)
(* accepted page.                                                          *)
C2_ResetOnSuccess ==
    /\ last = "success" => empty_responses = 0
    /\ stop = "empty" => streak >= EMPTY_STOP

(* C3: once three empty pages in a row were processed the run is over:     *)
(* scrape_all_pages has returned through the empty-page stop, no fetch     *)
(* call and no inter-page delay followed the third empty page, and on a    *)
(* fresh scraper the aggregate is what was accepted before.                *)
C3_EmptyStop ==
    streak >= EMPTY_STOP =>
        /\ pc = "done"
        /\ stop = "empty"
        /\ Len(offsets) = page + 1
        /\ delays = page
        /\ runs = 1 => all_data = Flatten(accepted)

C3_Witness ==
    /\ streak = EMPTY_STOP
    /\ stop = "empty"
    /\ successful_calls >= 1
    /\ page + 1 < Pages

(* C4: once failed_calls is 10 the run is over through the failure stop:   *)
(* no fetch call followed the tenth failure and on a fresh scraper the     *)
(* aggregate is what was accepted before; a failed page that leaves        *)
(* failed_calls below 10 does not end the run (it ends then only because   *)
(* the page was the last of the budget).                                   *)
C4_FailureStop ==
    /\ failed_calls >= FAILURE_STOP =>
        /\ failed_calls = FAILURE_STOP
        /\ pc = "done"
        /\ stop = "failed"
        /\ Len(offsets) = page + 1
        /\ runs = 1 => all_data = Flatten(accepted)
    /\ stop = "failed" => failed_calls = FAILURE_STOP
    /\ (pc = "done" /\ last = "failed" /\ failed_calls < FAILURE_STOP)
        => (stop = "budget" /\ page = Pages)

C4_Witness ==
    /\ stop = "failed"
    /\ failed_calls = FAILURE_STOP
    /\ empty_responses >= 1
    /\ page + 1 < Pages

\* the body is a bare sequence: [...]
IsBareList(body) == body.t = "list"

\* the body carries an empty record sequence: {"data": []} or []
IsEmptyBody(body) ==
    \/ body.t = "list" /\ body.v = << >>
    \/ /\ body.t = "dict"
       /\ "data" \in DOMAIN body.v
       /\ body.v.data.v = << >>

(* C5: when a 200 response carried a bare non-empty sequence, fetch_page   *)
(* returns that sequence and the driver appends its records in order and   *)
(* counts a successful call, not a failed one.                             *)
C5_BareListIsSuccess ==
    [][(pc = "process" /\ IsBareList(response) /\ response.v # << >>)
        => /\ page_data = response
           /\ all_data' = all_data \o response.v
           /\ successful_calls' = successful_calls + 1
           /\ failed_calls' = failed_calls]_vars

(* C6: when a 200 response carried an empty record sequence, in either     *)
(* shape, the driver counts one more empty response and leaves             *)
(* failed_calls, successful_calls and all_data as they were.               *)
C6_EmptyBodyIsEmpty ==
    [][(pc = "process" /\ response.t # "None" /\ IsEmptyBody(response))
        => /\ empty_responses' = empty_responses + 1
           /\ failed_calls' = failed_calls
           /\ successful_calls' = successful_calls
           /\ all_data' = all_data]_vars

(* C7: while all responses of a fetch are 429, the k-th of them is         *)
(* followed by a sleep of 10, 20, 40, 60 seconds (k = 1..4); after fewer   *)
(* than four the fetch requests again, after the fourth it returns None,   *)
(* so there is no fifth request.                                           *)
C7_RateLimitBackoff ==
    \A k \in 1..5 :
        attempts = [i \in 1..k |-> "429"] =>
            /\ k <= 4
            /\ sleeps = SubSeq(<<10, 20, 40, 60>>, 1, k)
            /\ IF k = 4
               THEN pc = "process" /\ page_data = None
               ELSE pc = "fetch" /\ retry_count = k

C7_Witness ==
    /\ attempts = <<"429", "429", "429", "429">>
    /\ pc = "process"
    /\ sleeps = <<10, 20, 40, 60>>

\* the number of records a value returned by fetch_page stands for
RecordCount(data) ==
    IF data.t = "dict" /\ "data" \in DOMAIN data.v THEN Len(data.v.data.v)
    ELSE IF data.t = "list" THEN Len(data.v)
    ELSE 1

\* fetch_page returned 20, 20 and 0 records for the first three pages of
\* the first run of a scraper with limit 20, and the third was just processed
C8_Scenario ==
    /\ limit = 20
    /\ runs = 1
    /\ page = 3
    /\ Len(accepted) = 2
    /\ accepted[1].offset = 0 /\ Len(accepted[1].records) = 20
    /\ accepted[2].offset = 20 /\ Len(accepted[2].records) = 20
    /\ last = "empty"

(* C8: the loop body that takes the success branch for a page of N         *)
(* records has N >= 1, makes all_data longer by exactly N, adds one to     *)
(* successful_calls and leaves failed_calls alone; after 20, 20 and 0      *)
(* records with limit 20 the aggregate has 40 records, successful_calls    *)
(* is 2, the empty counter is 1 and the loop goes on to the fourth page.   *)
C8_SuccessGrowth ==
    /\ [][(pc = "process" /\ last' = "success" /\ page' = page + 1)
            => /\ RecordCount(page_data) >= 1
               /\ Len(all_data') = Len(all_data) + RecordCount(page_data)
               /\ successful_calls' = successful_calls + 1
               /\ failed_calls' = failed_calls]_vars
    /\ [](C8_Scenario =>
            /\ Len(all_data) = 40
            /\ successful_calls = 2
            /\ failed_calls = 0
            /\ empty_responses = 1
            /\ pc \in {"fetch", "process"}
            /\ Len(offsets) = 4
            /\ stop = "")

C8_Witness ==
    /\ C8_Scenario
    /\ Len(all_data) = 40
    /\ pc = "fetch"

(* C9: the offsets the driver passes to fetch_page in a run are 0, limit,  *)
(* 2*limit, ... one per loop iteration, whatever the earlier pages came    *)
(* to; the accepted pages are among them with strictly increasing offsets, *)
(* so no offset is fetched or appended twice, retries or not.              *)
C9_OffsetsOnce ==
    /\ \A i \in 1..Len(offsets) : offsets[i] = (i - 1) * limit
    /\ pc \in {"fetch", "process"} => Len(offsets) = page + 1
    /\ pc = "done" => Len(offsets) \in {page, page + 1}
    /\ AcceptedAscending
    /\ \A i \in 1..Len(accepted) :
        /\ \E j \in 1..Len(offsets) : offsets[j] = accepted[i].offset
        /\ pc = "process" => accepted[i].offset < Last(offsets)
    /\ successful_calls = Len(accepted)

\* page 1 was accepted, page 2 failed for good, and page 3 came with records
\* after three retries
C9_Witness ==
    /\ pc = "process"
    /\ page = 2
    /\ Len(accepted) = 1
    /\ failed_calls = 1
    /\ Len(attempts) = 4
    /\ Truthy(page_data)

\* the place of a field name in KeyOrder
KeyRank(k) == CHOOSE i \in 1..Len(KeyOrder) : KeyOrder[i] = k

\* the keys of the dict records of data
KeysOf(data) ==
    {k \in {KeyOrder[i] : i \in 1..Len(KeyOrder)} :
        \E i \in 1..Len(data) : data[i].t = "dict" /\ k \in DOMAIN data[i].v}

(* C10: a CSV export that reports success has left a file whose header is  *)
(* the keys of all records in sorted order and whose rows are the records  *)
(* in the aggregate's order, a missing key giving an empty cell; exporting *)
(* the same aggregate again leaves the identical file.                     *)
C10_CsvStable ==
    /\ [](csv_result # "" =>
            /\ csv_file.t = "csv"
            /\ {csv_file.header[i] : i \in 1..Len(csv_file.header)}
                    = KeysOf(csv_source)
            /\ \A i, j \in 1..Len(csv_file.header) :
                    i < j => KeyRank(csv_file.header[i])
                                < KeyRank(csv_file.header[j])
            /\ csv_file.header # << >>
                    => Len(csv_file.rows) = Len(csv_source)
            /\ \A i \in 1..Len(csv_file.rows) :
                    /\ csv_source[i].t = "dict"
                    /\ Len(csv_file.rows[i]) = Len(csv_file.header)
                    /\ \A c \in 1..Len(csv_file.header) :
                        LET k == csv_file.header[c] IN
                        csv_file.rows[i][c] =
                            IF k \in DOMAIN csv_source[i].v
                            THEN <<csv_source[i].v[k]>> ELSE << >>)
    /\ [][(csv_result # "" /\ csv_result' # "" /\ exports' = exports + 1
            /\ all_data = csv_source)
            => csv_file' = csv_file]_vars

C10_Witness ==
    /\ exports = 2
    /\ csv_result # ""
    /\ Len(csv_file.header) = 3
    /\ Len(csv_file.rows) >= 2
    /\ csv_source = all_data

\* the sleeps before the two retries of a transient failure kind
TransientWaits(kind) ==
    CASE kind = "5xx" -> <<5, 10>>
      [] kind = "timeout" -> <<2, 2>>
      [] kind = "connection" -> <<5, 5>>

(* C11: while all responses of a fetch are the same transient failure      *)
(* (5xx, timeout or connection failure), the first two are followed by a   *)
(* sleep of 5 and 10, 2 and 2, or 5 and 5 seconds and a retry, the third   *)
(* makes fetch_page return None with no further sleep or request.          *)
C11_TransientRetries ==
    \A kind \in {"5xx", "timeout", "connection"} : \A k \in 1..4 :
        attempts = [i \in 1..k |-> kind] =>
            /\ k <= 3
            /\ sleeps = SubSeq(TransientWaits(kind), 1, Min(k, 2))
            /\ IF k = 3
               THEN pc = "process" /\ page_data = None
               ELSE pc = "fetch" /\ retry_count = k

C11_Witness ==
    /\ attempts = <<"5xx", "5xx", "5xx">>
    /\ sleeps = <<5, 10>>
    /\ pc = "process"
    /\ page_data = None

(* C12: a status other than 200, 429, 500, 502, 503, 504, an unexpected    *)
(* exception, or a 200 body that does not parse ends the fetch at once,    *)
(* at whatever attempt: fetch_page has returned None and has slept only    *)
(* before its earlier retries.                                             *)
C12_TerminalAtOnce ==
    (attempts # << >>
        /\ (Last(attempts) \in {"other", "exception"}
            \/ response.t = "unparsable"))
    => /\ pc = "process"
       /\ page_data = None
       /\ Len(sleeps) = Len(attempts) - 1
       /\ \A i \in 1..(Len(attempts) - 1) :
            attempts[i] \in {"429", "5xx", "timeout", "connection"}

\* an unparsable body after two retries
C12_Witness ==
    /\ Len(attempts) = 3
    /\ response.t = "unparsable"
    /\ pc = "process"
    /\ Len(sleeps) = 2

\* the body is a mapping without a "data" field
IsPlainMapping(body) == body.t = "dict" /\ "data" \notin DOMAIN body.v

(* C13: when a 200 response carried a mapping without a "data" field, the  *)
(* empty mapping included, the driver appends that mapping as one record,  *)
(* counts a successful call and leaves failed_calls alone.                 *)
C13_MappingIsOneRecord ==
    [][(pc = "process" /\ IsPlainMapping(response))
        => /\ all_data' = Append(all_data, response)
           /\ successful_calls' = successful_calls + 1
           /\ failed_calls' = failed_calls]_vars

(* C14: in a run there is one inter-page delay fewer than fetch_page       *)
(* calls, and a loop body sleeps the delay exactly when it goes on to      *)
(* another fetch_page call, whatever the page came to: one delay between   *)
(* two consecutive calls, none after the last.                             *)
C14_DelayBetweenPages ==
    /\ [](Len(offsets) >= 1 => delays = Len(offsets) - 1)
    /\ [][pc = "process" =>
            /\ delays' - delays = Len(offsets') - Len(offsets)
            /\ delays' - delays \in {0, 1}
            /\ pc' = "fetch" => delays' = delays + 1
            /\ pc' = "done" => delays' = delays]_vars

\* the budget ran out after a failed, an empty and an accepted page
C14_Witness ==
    /\ pc = "done"
    /\ stop = "budget"
    /\ failed_calls >= 1
    /\ empty_responses >= 1
    /\ successful_calls >= 1
    /\ delays = Pages - 1
    /\ delays >= 2

\* ceil(total_pages * 12 / limit)
MaxCalls ==
    CHOOSE n \in 0..(total_pages * 12) :
        /\ n * limit >= total_pages * 12
        /\ (n - 1) * limit < total_pages * 12

(* C15: a run makes at most ceil(total_pages * 12 / limit) fetch_page      *)
(* calls and comes to its end; it ends because all pages of the budget     *)
(* were processed, or through the empty-page stop, or through the          *)
(* failure stop, and the three exclude each other.                         *)
C15_Terminates ==
    /\ [](Len(offsets) <= MaxCalls)
    /\ [](pc \in {"fetch", "process"} => stop = "")
    /\ [](pc = "done" =>
            /\ stop \in {"budget", "empty", "failed"}
            /\ stop = "budget" =>
                /\ page = MaxCalls
                /\ Len(offsets) = MaxCalls
                /\ empty_responses < EMPTY_STOP
                /\ failed_calls < FAILURE_STOP
            /\ stop = "empty" =>
                /\ last = "empty"
                /\ page < MaxCalls
                /\ empty_responses = EMPTY_STOP
                /\ failed_calls < FAILURE_STOP
            /\ stop = "failed" =>
                /\ last = "failed"
                /\ page < MaxCalls
                /\ failed_calls = FAILURE_STOP
                /\ empty_responses < EMPTY_STOP)
    /\ (pc \in {"fetch", "process"}) ~> (pc = "done")

\* limit 5: 12 records take 3 calls, not 2
C15_Witness ==
    /\ pc = "done"
    /\ stop = "budget"
    /\ limit = 5
    /\ Len(offsets) = 3
    /\ MaxCalls = 3

(* C16: when an export that had records to write reports failure (the      *)
(* empty result), no file is left at the target path, also when the        *)
(* failure came after the file was opened for writing.                     *)
C16_NoFileAfterFailure ==
    (exports = 1 /\ csv_result = "") => csv_file.t = "nofile"

\* what fetch_page is claimed to leave alone
Shared == <<all_data, successful_calls, failed_calls, empty_responses>>

(* C17: no step of fetch_page, retry or return, changes the aggregate or   *)
(* a run counter; the aggregate changes only in the loop body that         *)
(* processes what fetch_page returned, the counters only there and in the  *)
(* reset at the start of a run.                                            *)
C17_FetchIsPure ==
    [][/\ pc = "fetch" => Shared' = Shared
       /\ all_data' # all_data => pc = "process"
       /\ Shared' # Shared =>
            \/ pc = "process"
            \/ pc \in {"idle", "done"} /\ runs' = runs + 1]_vars

\* a fetch of four requests and three sleeps has returned, after an
\* accepted and a failed page
C17_Witness ==
    /\ pc = "process"
    /\ Len(attempts) = 4
    /\ Len(sleeps) = 3
    /\ all_data # << >>
    /\ successful_calls >= 1
    /\ failed_calls >= 1
    /\ all_data = Flatten(accepted)

\* the failure kinds that are retried twice
TransientKinds == {"5xx", "timeout", "connection"}

(* C18: one fetch_page call of the driver makes at most 4 requests,        *)
(* whatever the mix of failures; during it retry_count is the number of    *)
(* requests made so far, of whatever kind; and a 5xx, timeout or           *)
(* connection failure that is the third request or later is the last       *)
(* request: fetch_page has returned None without sleeping for it.          *)
C18_SharedRetryCounter ==
    /\ Len(attempts) <= RATE_LIMIT_RETRIES + 1
    /\ pc = "fetch" =>
        /\ retry_count = Len(attempts)
        /\ retry_count <= RATE_LIMIT_RETRIES
        /\ Len(sleeps) = Len(attempts)
    /\ \A k \in 1..Len(attempts) :
        (k > TRANSIENT_RETRIES /\ attempts[k] \in TransientKinds) =>
            /\ k = Len(attempts)
            /\ pc = "process"
            /\ page_data = None
            /\ Len(sleeps) = k - 1

\* a first 5xx after a timeout and a 429 is not retried
C18_Witness ==
    /\ attempts = <<"timeout", "429", "5xx">>
    /\ sleeps = <<2, 20>>
    /\ pc = "process"
    /\ page_data = None

\* the fetch_page calls of the run that have returned and been processed
Completed ==
    IF pc \in {"fetch", "process"} THEN Len(offsets) - 1 ELSE Len(offsets)

\* the three counters of a run together
CounterSum == successful_calls + failed_calls + empty_responses

C20_ReturnsThisRun ==
    pc = "done" => all_data = Flatten(accepted)

====
